---- MODULE Spec2Model ----
(***************************************************************************)
(* GitTaskBenchRunner (src/src/gittaskbench/gittaskbench_runner.py): the   *)
(* per-task pipeline run_single_task, the batch loop run_batch with its    *)
(* progress and summary files, and the grading bridge, over an abstract    *)
(* file system (metadata store, output root, scratch directories).         *)
(***************************************************************************)
EXTENDS Integers, Sequences, FiniteSets, TLC

VARIABLES
    outputs,    \* output_root/<task_id>: kind, top-level entries, bookkeeping files
    scratch,    \* the scratch directories (named by the run that made them) that exist
    runs,       \* number of run_single_task calls made so far
    last,       \* what the most recent run_single_task call did (history)
    batch,      \* run_batch: position, task list, in-memory results and counters
    progress,   \* output_root/evaluation_progress.json
    summary,    \* output_root/evaluation_summary.json
    grade       \* what the most recent grade_with_gittaskbench call returned

vars == <<outputs, scratch, runs, last, batch, progress, summary, grade>>

(***************************************************************************)
(* Bounds of the model.                                                    *)
(***************************************************************************)
MaxRuns == 2        \* run_single_task calls in one behaviour
MaxBatch == 2       \* length of an explicit task list given to run_batch

(***************************************************************************)
(* The benchmark on disk: config/<id>/task_info.yaml and                   *)
(* queries/<id>/query.json.  A_01 and B_02 are complete (B_02's repository *)
(* has no /GitTaskBench/ path and resolves through code_base), C_03 has    *)
(* metadata but no query document, D_04 has no metadata document.          *)
(***************************************************************************)
TaskIds == {"A_01", "B_02", "C_03", "D_04"}

ConfigIds == {"A_01", "B_02", "C_03"}

QueryIds == {"A_01", "B_02"}

Queries ==
    [t \in QueryIds |->
        IF t = "A_01"
        THEN [repositories |->
                << [name |-> "Trafilatura",
                    path |-> <<"GitTaskBench", "code_base", "Trafilatura">>] >>]
        ELSE [repositories |->
                << [name |-> "Trafilatura", path |-> <<>>] >>]]

\* top-level entry names a scratch or output directory can hold
Names == {"Trafilatura", "input_dataset", "output.txt"}

Kinds == {"absent", "file", "dir"}

\* a bookkeeping file: absent (run = 0), or written by run `run`, completely or not
NoFile == [run |-> 0, complete |-> FALSE]

NoEntries == [n \in Names |-> "absent"]

NoDir == [kind |-> "absent", entries |-> NoEntries, result |-> NoFile, error |-> NoFile]

(***************************************************************************)
(* load_task_config                                                        *)
(***************************************************************************)
\* load_task_config without the existence check: an unknown id gets a usable record
LoadTaskConfigLenient(task_id) ==
    IF task_id \in QueryIds
    THEN [raised |-> FALSE, repositories |-> Queries[task_id].repositories]
    ELSE [raised |-> FALSE, repositories |-> Queries["A_01"].repositories]

LoadTaskConfig(task_id) ==
    IF task_id \notin ConfigIds
    THEN [raised |-> TRUE, repositories |-> <<>>]
    ELSE IF task_id \in QueryIds
         THEN [raised |-> FALSE, repositories |-> Queries[task_id].repositories]
         ELSE [raised |-> FALSE, repositories |-> <<>>]

\* repository path resolution; the path is kept as its sequence of components
ResolveRepository(repo_info) ==
    IF Len(repo_info.path) > 0 /\ repo_info.path[1] = "GitTaskBench"
    THEN <<"gittaskbench_root">> \o Tail(repo_info.path)
    ELSE <<"gittaskbench_root", "code_base", repo_info.name>>

\* Path(repository).name
BaseName(path) == path[Len(path)]

(***************************************************************************)
(* Artifact collection: the loop over temp_work_dir.iterdir().             *)
(***************************************************************************)
\* the skip test without the dataset directory
IsSkippedRepoOnly(kind, name, repository) ==
    kind = "dir" /\ name = BaseName(repository)

IsSkipped(kind, name, repository) ==
    kind = "dir" /\ name \in {BaseName(repository), "input_dataset"}

\* the copy step with the file branch lost: only directories are copied
CopyItemDirsOnly(ent, name, kind) ==
    IF kind = "file"
    THEN [raised |-> FALSE, entries |-> ent]
    ELSE IF ent[name] = "file"
         THEN [raised |-> TRUE, entries |-> ent]
         ELSE [raised |-> FALSE, entries |-> [ent EXCEPT ![name] = "dir"]]

\* one iteration: copy `name` (of kind `kind`) into the output entries `ent`
CopyItem(ent, name, kind) ==
    IF kind = "file"
    THEN \* shutil.copy2: into the directory if the destination is one
         [raised |-> FALSE,
          entries |-> IF ent[name] = "dir" THEN ent ELSE [ent EXCEPT ![name] = "file"]]
    ELSE \* shutil.copytree(dirs_exist_ok=True): fails on an existing regular file
         IF ent[name] = "file"
         THEN [raised |-> TRUE, entries |-> ent]
         ELSE [raised |-> FALSE, entries |-> [ent EXCEPT ![name] = "dir"]]

RECURSIVE Collect(_, _, _, _, _)
Collect(order, left, ent, copied, repository) ==
    IF order = <<>>
    THEN [raised |-> FALSE, entries |-> ent, copied |-> copied]
    ELSE LET name == Head(order)
             kind == left[name]
         IN  IF IsSkipped(kind, name, repository)
             THEN Collect(Tail(order), left, ent, copied, repository)
             ELSE LET c == CopyItem(ent, name, kind)
                  IN  IF c.raised
                      THEN [raised |-> TRUE, entries |-> c.entries, copied |-> copied]
                      ELSE Collect(Tail(order), left, c.entries,
                                   copied \cup {name}, repository)

\* the orders in which iterdir() may yield the entries the agent left
Orders(left) ==
    LET present == {n \in Names : left[n] # "absent"}
    IN  {s \in UNION {[1..k -> present] : k \in {Cardinality(present)}} :
            \A i, j \in DOMAIN s : i # j => s[i] # s[j]}

(***************************************************************************)
(* run_single_task                                                         *)
(***************************************************************************)
AgentOutcomes == {"ctor_raises", "raises", "returns", "returns_unserializable"}

NoRun ==
    [task |-> "none", outcome |-> "none", exc |-> "none", stamp |-> 0,
     agent |-> "none", agentInvoked |-> FALSE, scratchMade |-> FALSE,
     outMade |-> FALSE, inTry |-> FALSE, wrote |-> {}, before |-> NoDir,
     left |-> NoEntries, copied |-> {}]

\* an except block that records the error and raises it again
ExceptBlockReraises(t, stamp) ==
    [out |-> [t.out EXCEPT !.error = [run |-> stamp, complete |-> TRUE]],
     run |-> [t.run EXCEPT !.outcome = "raised", !.exc = "Exception",
                           !.wrote = @ \cup {"error"}]]

\* the except block, entered with the output directory and the record of the run
\* as the try block left them: error_data is written to execution_error.json
\* and returned
ExceptBlock(t, stamp) ==
    [out |-> [t.out EXCEPT !.error = [run |-> stamp, complete |-> TRUE]],
     run |-> [t.run EXCEPT !.outcome = "returned_error", !.wrote = @ \cup {"error"}]]

\* the try block, from the agent's construction to the result file
TryBlock(run, out, stamp, agent, left, order, repository) ==
    IF agent \in {"ctor_raises", "raises"}
    THEN [raised |-> TRUE, out |-> out,
          run |-> [run EXCEPT !.agentInvoked = (agent = "raises")]]
    ELSE LET c == Collect(order, left, out.entries, {}, repository)
             r1 == [run EXCEPT !.agentInvoked = TRUE, !.copied = c.copied]
             o1 == [out EXCEPT !.entries = c.entries]
         IN  IF c.raised
             THEN [raised |-> TRUE, out |-> o1, run |-> r1]
             ELSE IF agent = "returns_unserializable"
                  THEN \* open(result_file, 'w') truncates, json.dump raises midway
                       [raised |-> TRUE,
                        out |-> [o1 EXCEPT !.result = [run |-> stamp, complete |-> FALSE]],
                        run |-> [r1 EXCEPT !.wrote = @ \cup {"result"}]]
                  ELSE [raised |-> FALSE,
                        out |-> [o1 EXCEPT !.result = [run |-> stamp, complete |-> TRUE]],
                        run |-> [r1 EXCEPT !.wrote = @ \cup {"result"},
                                           !.outcome = "returned_success"]]

\* the steps before the try block: load_task_config, the repository list,
\* tempfile.mkdtemp and final_output_dir.mkdir
Preflight(task_id, out) ==
    LET cfg == LoadTaskConfig(task_id)
    IN  IF cfg.raised \/ cfg.repositories = <<>> THEN "ValueError"
        ELSE IF out.kind = "file" THEN "FileExistsError"
        ELSE "ok"

\* The whole call.  Gives the new output directory of the task, whether the
\* scratch directory is left behind, and the record of the run.
RunTask(task_id, stamp, out, agent, left, order) ==
    LET cfg == LoadTaskConfig(task_id)
        pre == Preflight(task_id, out)
        run0 == [NoRun EXCEPT !.task = task_id, !.stamp = stamp, !.before = out,
                              !.agent = agent, !.left = left]
    IN  IF pre = "ValueError"
        THEN \* raised before any directory is made
             [out |-> out, leak |-> FALSE,
              run |-> [run0 EXCEPT !.outcome = "raised", !.exc = pre]]
        ELSE IF pre = "FileExistsError"
        THEN \* mkdtemp has made the scratch directory; mkdir raises outside the try
             [out |-> out, leak |-> TRUE,
              run |-> [run0 EXCEPT !.scratchMade = TRUE, !.outcome = "raised",
                                   !.exc = pre]]
        ELSE LET repository == ResolveRepository(cfg.repositories[1])
                 out1 == [out EXCEPT !.kind = "dir"]
                 run1 == [run0 EXCEPT !.scratchMade = TRUE,
                                      !.outMade = (out.kind = "absent"),
                                      !.inTry = TRUE]
                 t == TryBlock(run1, out1, stamp, agent, left, order, repository)
             IN  IF t.raised
                 THEN \* shutil.rmtree(temp_work_dir) ends both paths
                      LET e == ExceptBlock(t, stamp)
                      IN  [out |-> e.out, leak |-> FALSE, run |-> e.run]
                 ELSE [out |-> t.out, leak |-> FALSE, run |-> t.run]

\* What the environment decides in one call: how the agent ends, what it left in
\* the scratch directory, and the order iterdir() yields it in.  The agent is
\* consulted only if the call reaches it, iterdir() only if the agent returns.
AgentsFor(task_id, out) ==
    IF Preflight(task_id, out) = "ok" THEN AgentOutcomes ELSE {"none"}

\* every content of the scratch directory over Names
AllLefts == [Names -> Kinds]

\* nothing, or one artifact file
PlainLefts == {NoEntries, [NoEntries EXCEPT !["output.txt"] = "file"]}

LeftFor(agent, lefts) ==
    IF agent \in {"none", "ctor_raises"} THEN {NoEntries} ELSE lefts

OrdersFor(agent, left) ==
    IF agent \in {"returns", "returns_unserializable"} THEN Orders(left) ELSE {<<>>}

\* the Execution Result the call returns
ResultOf(run) ==
    [task_id |-> run.task, success |-> (run.outcome = "returned_success"),
     run |-> run.stamp]

(***************************************************************************)
(* get_all_tasks: the ids under config/ in lexicographic order.            *)
(***************************************************************************)
CharCode == [c \in {"0", "1", "2", "3", "4", "A", "B", "C", "D", "_"} |->
    CASE c = "0" -> 48 [] c = "1" -> 49 [] c = "2" -> 50 [] c = "3" -> 51
      [] c = "4" -> 52 [] c = "A" -> 65 [] c = "B" -> 66 [] c = "C" -> 67
      [] c = "D" -> 68 [] c = "_" -> 95]

Chars == [t \in TaskIds |->
    CASE t = "A_01" -> <<"A", "_", "0", "1">> [] t = "B_02" -> <<"B", "_", "0", "2">>
      [] t = "C_03" -> <<"C", "_", "0", "3">> [] t = "D_04" -> <<"D", "_", "0", "4">>]

\* Python's str comparison: the first differing character decides, then the length
RECURSIVE LexLess(_, _)
LexLess(a, b) ==
    IF b = <<>> THEN FALSE
    ELSE IF a = <<>> THEN TRUE
    ELSE IF CharCode[Head(a)] # CharCode[Head(b)]
         THEN CharCode[Head(a)] < CharCode[Head(b)]
         ELSE LexLess(Tail(a), Tail(b))

\* sorted(tasks)
RECURSIVE Sorted(_)
Sorted(S) ==
    IF S = {} THEN <<>>
    ELSE LET m == CHOOSE x \in S : \A y \in S \ {x} : LexLess(Chars[x], Chars[y])
         IN  <<m>> \o Sorted(S \ {m})

GetAllTasks == Sorted(ConfigIds)

(***************************************************************************)
(* _save_progress and _generate_summary                                    *)
(***************************************************************************)
\* progress saved before the result is appended
SaveProgressBeforeAppend(results) ==
    [exists |-> TRUE, results |-> SubSeq(results, 1, Len(results) - 1)]

SaveProgress(results) == [exists |-> TRUE, results |-> results]

TwoDigits(n) == IF n < 10 THEN "0" \o ToString(n) ELSE ToString(n)

\* the rate with an integer quotient: successful // total * 100
FormatRateFloorDiv(successful, total) ==
    ToString((successful \div total) * 100) \o ".00%"

\* f"{successful/total*100:.2f}%": the quotient to the nearest hundredth, a tie
\* going to the even digit
FormatRate(successful, total) ==
    LET q == (successful * 10000) \div total
        r == (successful * 10000) % total
        h == IF 2 * r > total \/ (2 * r = total /\ q % 2 = 1) THEN q + 1 ELSE q
    IN  ToString(h \div 100) \o "." \o TwoDigits(h % 100) \o "%"

GenerateSummary(results, successful, failed) ==
    LET total == Len(results)
    IN  [exists |-> TRUE,
         total_tasks |-> total,
         successful |-> successful,
         failed |-> failed,
         success_rate |-> IF total > 0 THEN FormatRate(successful, total) ELSE "0%",
         results |-> results]

NoSummary ==
    [exists |-> FALSE, total_tasks |-> 0, successful |-> 0, failed |-> 0,
     success_rate |-> "", results |-> <<>>]

(***************************************************************************)
(* The state after construction: output_root exists and is empty, or holds *)
(* a regular file in the place of one task's output directory.             *)
(***************************************************************************)
None == -1

NoBatch ==
    [pc |-> "idle", given |-> <<>>, cap |-> None, task_ids |-> <<>>,
     results |-> <<>>, successful |-> 0, failed |-> 0]

NoGrade ==
    [task_id |-> "none", graded |-> FALSE, error |-> "", evaluated |-> FALSE,
     import |-> "none"]

Init ==
    /\ \E b \in SUBSET {"B_02"} :
          outputs = [t \in TaskIds |->
                        IF t \in b THEN [NoDir EXCEPT !.kind = "file"] ELSE NoDir]
    /\ scratch = {}
    /\ runs = 0
    /\ last = NoRun
    /\ batch = NoBatch
    /\ progress = [exists |-> FALSE, results |-> <<>>]
    /\ summary = NoSummary
    /\ grade = NoGrade

\* one run_single_task call on the file system, with the environment's choices
Run(task_id, r) ==
    /\ outputs' = [outputs EXCEPT ![task_id] = r.out]
    /\ scratch' = IF r.leak THEN scratch \cup {runs + 1} ELSE scratch
    /\ runs' = runs + 1
    /\ last' = r.run

RunSingleTaskOver(lefts) ==
    /\ runs < MaxRuns
    /\ \E task_id \in TaskIds :
         \E agent \in AgentsFor(task_id, outputs[task_id]) :
           \E left \in LeftFor(agent, lefts) :
             \E order \in OrdersFor(agent, left) :
               Run(task_id, RunTask(task_id, runs + 1, outputs[task_id],
                                    agent, left, order))
    /\ UNCHANGED <<batch, progress, summary, grade>>

\* the command line's --task: one run_single_task call
RunSingleTask == RunSingleTaskOver(AllLefts)

\* the task lists a caller may give: up to MaxBatch ids
TaskLists == UNION {[1..k -> TaskIds] : k \in 0..MaxBatch}

\* run_batch up to the loop: the list to run, the empty results and counters
\* (task_ids = None is the sorted listing, max_tasks = None no cap).  Only
\* batches that the MaxRuns calls of a behaviour can complete are started.
RunBatchStart ==
    /\ batch.pc # "running"
    /\ \E given \in TaskLists \cup {GetAllTasks}, max_tasks \in {None} \cup (0..MaxBatch) :
         LET task_ids == IF max_tasks # None /\ max_tasks # 0
                         THEN SubSeq(given, 1, IF max_tasks < Len(given)
                                               THEN max_tasks ELSE Len(given))
                         ELSE given
         IN  /\ runs + Len(task_ids) <= MaxRuns
             /\ batch' = [pc |-> "running", given |-> given, cap |-> max_tasks,
                          task_ids |-> task_ids, results |-> <<>>,
                          successful |-> 0, failed |-> 0]
    /\ UNCHANGED <<outputs, scratch, runs, last, progress, summary, grade>>

\* a loop body that also rebuilds and saves the summary after each task
RunBatchStepSavingSummary ==
    /\ batch.pc = "running"
    /\ Len(batch.results) < Len(batch.task_ids)
    /\ runs < MaxRuns
    /\ LET task_id == batch.task_ids[Len(batch.results) + 1]
       IN  \E agent \in AgentsFor(task_id, outputs[task_id]) :
             \E left \in LeftFor(agent, PlainLefts) :
               \E order \in OrdersFor(agent, left) :
                 LET r == RunTask(task_id, runs + 1, outputs[task_id],
                                  agent, left, order)
                     result == ResultOf(r.run)
                     results == Append(batch.results, result)
                     successful == batch.successful + (IF result.success THEN 1 ELSE 0)
                     failed == batch.failed + (IF result.success THEN 0 ELSE 1)
                 IN  /\ Run(task_id, r)
                     /\ IF r.run.outcome = "raised"
                        THEN /\ batch' = [batch EXCEPT !.pc = "aborted"]
                             /\ UNCHANGED <<progress, summary>>
                        ELSE /\ batch' = [batch EXCEPT !.results = results,
                                                       !.successful = successful,
                                                       !.failed = failed]
                             /\ progress' = SaveProgress(results)
                             /\ summary' = GenerateSummary(results, successful, failed)
    /\ UNCHANGED grade

\* one iteration of the loop: run the next task, append, count, save progress.
\* An exception of run_single_task leaves run_batch.
RunBatchStep ==
    /\ batch.pc = "running"
    /\ Len(batch.results) < Len(batch.task_ids)
    /\ runs < MaxRuns
    /\ LET task_id == batch.task_ids[Len(batch.results) + 1]
       IN  \E agent \in AgentsFor(task_id, outputs[task_id]) :
             \E left \in LeftFor(agent, PlainLefts) :
               \E order \in OrdersFor(agent, left) :
                 LET r == RunTask(task_id, runs + 1, outputs[task_id],
                                  agent, left, order)
                     result == ResultOf(r.run)
                     results == Append(batch.results, result)
                 IN  /\ Run(task_id, r)
                     /\ IF r.run.outcome = "raised"
                        THEN /\ batch' = [batch EXCEPT !.pc = "aborted"]
                             /\ UNCHANGED progress
                        ELSE /\ batch' = [batch EXCEPT
                                    !.results = results,
                                    !.successful = IF result.success THEN @ + 1 ELSE @,
                                    !.failed = IF result.success THEN @ ELSE @ + 1]
                             /\ progress' = SaveProgress(results)
    /\ UNCHANGED <<summary, grade>>

\* after the loop: the summary is generated, saved and returned
RunBatchFinish ==
    /\ batch.pc = "running"
    /\ Len(batch.results) = Len(batch.task_ids)
    /\ summary' = GenerateSummary(batch.results, batch.successful, batch.failed)
    /\ batch' = [batch EXCEPT !.pc = "done"]
    /\ UNCHANGED <<outputs, scratch, runs, last, progress, grade>>

(***************************************************************************)
(* grade_with_gittaskbench.  The environment decides whether                *)
(* `from gittaskbench import TaskEvaluator` succeeds and how the evaluator  *)
(* ends.                                                                    *)
(***************************************************************************)
ImportOutcomes == {"imported", "ImportError"}

EvaluatorOutcomes == {"returns", "raises"}

\* the bridge without the test of the output directory
GradeWithoutDirCheck(task_id, out, import, evaluator) ==
    IF import = "ImportError"
    THEN [task_id |-> task_id, graded |-> FALSE, evaluated |-> FALSE,
          error |-> "GitTaskBench grading module not available. Install GitTaskBench properly."]
    ELSE IF evaluator = "raises"
    THEN [task_id |-> task_id, graded |-> FALSE, evaluated |-> TRUE,
          error |-> "str(e) of the evaluator"]
    ELSE [task_id |-> task_id, graded |-> TRUE, evaluated |-> TRUE, error |-> ""]

GradeWithGittaskbench(task_id, out, import, evaluator) ==
    IF import = "ImportError"
    THEN [task_id |-> task_id, graded |-> FALSE, evaluated |-> FALSE,
          error |-> "GitTaskBench grading module not available. Install GitTaskBench properly."]
    ELSE IF out.kind = "absent"
    THEN [task_id |-> task_id, graded |-> FALSE, evaluated |-> FALSE,
          error |-> "Output directory not found. Run task first."]
    ELSE IF evaluator = "raises"
    THEN [task_id |-> task_id, graded |-> FALSE, evaluated |-> TRUE,
          error |-> "str(e) of the evaluator"]
    ELSE [task_id |-> task_id, graded |-> TRUE, evaluated |-> TRUE, error |-> ""]

Grade ==
    /\ \E task_id \in TaskIds, import \in ImportOutcomes, evaluator \in EvaluatorOutcomes :
         grade' = [import |-> import] @@
                  GradeWithGittaskbench(task_id, outputs[task_id], import, evaluator)
    /\ UNCHANGED <<outputs, scratch, runs, last, batch, progress, summary>>

\* a task run ahead of grading, the agent leaving at most one artifact
RunBeforeGrade == RunSingleTaskOver(PlainLefts)

(***************************************************************************)
(* Specifications: runs of single tasks; batches; runs and grading.        *)
(***************************************************************************)
Next == RunSingleTask

Spec == Init /\ [][Next]_vars

NextBatch ==
    \/ RunBatchStart
    \/ RunBatchStep
    \/ RunBatchFinish

SpecBatch == Init /\ [][NextBatch]_vars

NextGrade ==
    \/ RunBeforeGrade
    \/ Grade

SpecGrade == Init /\ [][NextGrade]_vars

(***************************************************************************)
(* Properties.  `last` is the most recent run_single_task call: the task,  *)
(* its output directory before the call, what the agent left, what the     *)
(* call wrote.                                                             *)
(***************************************************************************)
Ran == last.outcome # "none"

Succeeded == last.outcome = "returned_success"

Failed == last.outcome = "returned_error"

OutNow == outputs[last.task]

\* the names the collection loop excludes for the task of the last run
Excluded == {BaseName(ResolveRepository(LoadTaskConfig(last.task).repositories[1])),
             "input_dataset"}

\* the scratch entries of the last run that are not excluded directories
Artifacts == {n \in Names : last.left[n] # "absent"
                            /\ ~(last.left[n] = "dir" /\ n \in Excluded)}

\* C1 (as stated): no failure of a task's run, at whatever step, aborts the
\* batch: run_batch is never left by an exception.
C1_NoFailureAbortsBatch == batch.pc # "aborted"

\* C1 (amended): a failure inside the try block of run_single_task (agent
\* construction, invocation, collection, result writing) is returned as an
\* error result and the batch goes on, so a finished batch has one result per
\* task of the list, in list order; the batch is left early only by an
\* exception raised before the try block.
C1_GuardedFailuresIsolated ==
    /\ batch.pc = "aborted" => (last.outcome = "raised" /\ ~last.inTry)
    /\ batch.pc = "done" =>
          /\ Len(summary.results) = Len(batch.task_ids)
          /\ \A i \in 1..Len(batch.task_ids) :
                summary.results[i].task_id = batch.task_ids[i]
    /\ (batch.pc = "running" /\ Ran /\ last.inTry) => last.outcome # "raised"

C1_Witness ==
    /\ batch.pc = "done"
    /\ Len(batch.task_ids) = 2
    /\ ~summary.results[1].success
    /\ summary.results[2].run = last.stamp
    /\ summary.results[2].run > summary.results[1].run

\* C2: a run that reached the try block wrote exactly one of
\* execution_result.json and execution_error.json.
C2_ExactlyOneFileWritten == (Ran /\ last.inTry) => Cardinality(last.wrote) = 1

\* C3: once a run has completed, returned or raised, the scratch directory it
\* created does not exist.
C3_ScratchDeleted == (Ran /\ last.scratchMade) => last.stamp \notin scratch

\* C4 (as stated): after a successful run the output directory has no top-level
\* entry named as the repository's base name or input_dataset.
C4_NoExcludedNameInOutput ==
    Succeeded => \A n \in Excluded : OutNow.entries[n] = "absent"

\* C4 (amended): a successful run copies no scratch directory named as the
\* repository's base name or input_dataset; after it the output directory has an
\* entry of such a name only if it had one before the run or the agent left a
\* regular file of that name.
C4_ExcludedDirectoriesNotCopied ==
    Succeeded =>
        \A n \in Excluded :
            /\ last.left[n] = "dir" => n \notin last.copied
            /\ OutNow.entries[n] # "absent" =>
                  (last.before.entries[n] # "absent" \/ last.left[n] = "file")
            /\ OutNow.entries[n] = "dir" => last.before.entries[n] = "dir"

C4_Witness ==
    /\ Succeeded
    /\ \A n \in Excluded : last.left[n] = "dir" /\ OutNow.entries[n] = "absent"
    /\ last.left["output.txt"] = "file"
    /\ OutNow.entries["output.txt"] = "file"

\* C5: a run for a task id without a metadata document raises the configuration
\* error, makes neither a scratch nor an output directory, leaves the output
\* root as it was and never invokes the agent.
C5_MissingMetadataTouchesNothing ==
    (Ran /\ last.task \notin ConfigIds) =>
        /\ last.outcome = "raised"
        /\ last.exc = "ValueError"
        /\ ~last.scratchMade
        /\ ~last.outMade
        /\ ~last.agentInvoked
        /\ last.stamp \notin scratch
        /\ OutNow = last.before
        /\ last.wrote = {}

C5_Witness ==
    /\ last.task = "D_04"
    /\ last.outcome = "raised"
    /\ OutNow.kind = "absent"
    /\ runs = 2

\* C6: in a batch, once k >= 1 tasks have finished, evaluation_progress.json
\* holds exactly k results: those of the first k tasks of the list, in list
\* order, the k-th being the run that has just finished.
C6_ProgressAfterEachTask ==
    (batch.pc = "running" /\ Len(batch.results) >= 1) =>
        LET k == Len(batch.results)
        IN  /\ progress.exists
            /\ Len(progress.results) = k
            /\ \A i \in 1..k :
                  /\ progress.results[i].task_id = batch.task_ids[i]
                  /\ progress.results[i] = batch.results[i]
                  /\ i < k => progress.results[i].run < progress.results[i + 1].run
            /\ progress.results[k].run = last.stamp
            /\ progress.results[k].success = Succeeded

C6_Witness ==
    /\ batch.pc = "running"
    /\ Len(batch.task_ids) = 2
    /\ Len(batch.results) = 1
    /\ Len(progress.results) = 1
    /\ progress.results[1].task_id = batch.task_ids[1]

\* two decimals of h hundredths
Hundredths(h) ==
    ToString(h \div 100) \o "." \o ToString((h % 100) \div 10) \o ToString(h % 10)

\* C7: the summary of a finished batch of N tasks with S successes has
\* total_tasks = N, successful = S, failed = N - S and the success rate
\* S/N x 100 to the nearest hundredth followed by %, "50.00%" for N = 2 and
\* S = 1, and "0%" for N = 0.
C7_SummaryCounts ==
    batch.pc = "done" =>
        LET N == Len(batch.task_ids)
            S == Cardinality({i \in 1..Len(batch.results) : batch.results[i].success})
        IN  /\ summary.exists
            /\ summary.total_tasks = N
            /\ summary.successful = S
            /\ summary.failed = N - S
            /\ N = 0 => summary.success_rate = "0%"
            /\ N > 0 =>
                  \E h \in 0..10000 :
                      /\ 2 * (h * N - 10000 * S) <= N
                      /\ 2 * (10000 * S - h * N) <= N
                      /\ summary.success_rate = Hundredths(h) \o "%"
            /\ (N = 2 /\ S = 1) => summary.success_rate = "50.00%"

C7_Witness ==
    /\ batch.pc = "done"
    /\ summary.total_tasks = 2
    /\ summary.successful = 1
    /\ summary.failed = 1
    /\ summary.success_rate = "50.00%"

\* C8: a run of a task whose output directory already holds a bookkeeping file
\* of an earlier run writes only the file of its own outcome, which then is
\* this run's; the other file is left as it was.
C8_OnlyOwnFileRewritten ==
    (Ran /\ last.inTry /\ (last.before.result # NoFile \/ last.before.error # NoFile)) =>
        /\ Succeeded =>
              /\ last.wrote = {"result"}
              /\ OutNow.result = [run |-> last.stamp, complete |-> TRUE]
              /\ OutNow.error = last.before.error
        /\ Failed =>
              /\ last.wrote = {"error"}
              /\ OutNow.error = [run |-> last.stamp, complete |-> TRUE]
              /\ OutNow.result = last.before.result

NotFound == "Output directory not found. Run task first."

Unavailable == "GitTaskBench grading module not available. Install GitTaskBench properly."

Graded == grade.task_id # "none"

\* C9 (as stated): for a task whose output directory was never created the
\* bridge returns graded = false with the "not found" error, whether or not the
\* evaluator module can be imported, and does not invoke the evaluator.
C9_NotFoundInEveryEnvironment ==
    (Graded /\ outputs[grade.task_id].kind = "absent") =>
        (~grade.graded /\ ~grade.evaluated /\ grade.error = NotFound)

\* C9 (amended): for a task whose output directory was never created the bridge
\* returns graded = false without invoking the evaluator; the error is the
\* "not found" one when the evaluator module is imported, and the "module not
\* available" one when the import raises ImportError.
C9_NotFoundWhenImported ==
    (Graded /\ outputs[grade.task_id].kind = "absent") =>
        /\ ~grade.graded
        /\ ~grade.evaluated
        /\ grade.import = "imported" => grade.error = NotFound
        /\ grade.import = "ImportError" => grade.error = Unavailable

C9_Witness ==
    /\ Graded
    /\ outputs[grade.task_id].kind = "absent"
    /\ grade.import = "imported"
    /\ grade.error = NotFound
    /\ ~grade.graded

\* C10 (as stated): after a run that invoked the agent, whether the agent
\* returned or raised, every scratch entry that is not an excluded directory
\* is in the output directory.
C10_CollectedAfterSuccessOrFailure ==
    (Ran /\ last.agentInvoked) => \A n \in Artifacts : OutNow.entries[n] # "absent"

\* C10 (amended): artifacts are collected only when the agent returns.  After a
\* successful run every scratch entry that is not an excluded directory has
\* been copied and is in the output directory; after a run whose agent raised
\* nothing has been copied and the output directory's entries are as before.
C10_CollectedOnlyWhenAgentReturns ==
    /\ Succeeded =>
          /\ last.copied = Artifacts
          /\ \A n \in Artifacts :
                /\ OutNow.entries[n] # "absent"
                /\ last.left[n] = "dir" => OutNow.entries[n] = "dir"
    /\ (Ran /\ last.agent \in {"raises", "ctor_raises"}) =>
          /\ last.copied = {}
          /\ OutNow.entries = last.before.entries

C10_Witness ==
    /\ Failed
    /\ last.agent = "raises"
    /\ last.left["output.txt"] = "file"
    /\ OutNow.entries["output.txt"] = "absent"
    /\ OutNow.error.run = last.stamp

\* the tasks finished so far in the batch
Finished == Len(batch.results)

\* C11 (as stated): in a batch, once k >= 1 tasks have completed, the summary
\* on disk is the snapshot of those k tasks: total_tasks = k with their
\* successful and failed counts.
C11_SummaryAfterEveryTask ==
    (batch.pc = "running" /\ Finished >= 1) =>
        /\ summary.exists
        /\ summary.total_tasks = Finished
        /\ summary.successful = batch.successful
        /\ summary.failed = batch.failed

\* C11 (amended): the summary is written once, after the last task of a batch.
\* While a batch is running the summary on disk holds no result of that batch
\* (it is absent or an earlier batch's); once the batch has finished it holds
\* the results of all its tasks with their counts.  A summary on disk always
\* agrees with the results it lists.
C11_SummaryOnlyAfterLastTask ==
    /\ (batch.pc = "running" /\ Finished >= 1) =>
          \A i \in 1..Len(summary.results) :
              summary.results[i].run < batch.results[1].run
    /\ batch.pc = "done" =>
          /\ summary.exists
          /\ summary.results = batch.results
          /\ summary.total_tasks = Len(batch.task_ids)
    /\ summary.exists =>
          /\ summary.total_tasks = Len(summary.results)
          /\ summary.successful =
                Cardinality({i \in 1..Len(summary.results) : summary.results[i].success})
          /\ summary.failed = summary.total_tasks - summary.successful
    /\ ~summary.exists => summary = NoSummary

C11_Witness ==
    /\ batch.pc = "running"
    /\ Len(batch.task_ids) = 2
    /\ Finished = 1
    /\ progress.exists
    /\ Len(progress.results) = 1
    /\ ~summary.exists

\* C12: a batch given a list of n tasks and a cap m >= 0 runs the first
\* min(m, n) tasks of the list, one after the other in list order, and no
\* other; without a cap it runs all n.
C12_RunsFirstMinTasks ==
    batch.pc \in {"running", "done"} =>
        LET n == Len(batch.given)
            m == batch.cap
            limit == IF m = None THEN n ELSE IF m < n THEN m ELSE n
        IN  /\ Finished <= limit
            /\ \A i \in 1..Finished :
                  /\ batch.results[i].task_id = batch.given[i]
                  /\ i < Finished => batch.results[i].run < batch.results[i + 1].run
            /\ batch.pc = "done" => Finished = limit
====
